---- MODULE Spec2Model ----
(***************************************************************************)
(* State-machine model of the PhysioVision front-end pages:                *)
(*   - FitnessAssistant (chat page),        src/unnamed/part_000           *)
(*   - StartTherapy (exercise cards),       src/app/start-therapy/page.tsx *)
(*   - Dashboard (profile display),         src/app/start-therapy/page.tsx *)
(* Each page is a React component; its useState cells are the variables,   *)
(* its event handlers, timers and promise continuations are the actions.   *)
(* A page is checked under its own specification (SpecChat, SpecTherapy,   *)
(* SpecDash); the variables of the other pages stay at their initial value.*)
(***************************************************************************)
EXTENDS Integers, Sequences, FiniteSets

VARIABLES
    messages,      \* chat: useState transcript, sequence of messages
    userInput,     \* chat: useState input buffer, sequence of characters
    timers,        \* chat: pending setTimeout callbacks, in scheduling order
    now,           \* chat: wall clock (Date), milliseconds since midnight of the mount day
    flippedCards,  \* therapy: useState mapping card index -> boolean (partial)
    sidebarOpen,   \* therapy: useState sidebar visibility
    mounted,       \* dashboard: whether the component has mounted (first effect run)
    username,      \* dashboard: username supplied by the user context
    userData,      \* dashboard: useState stored profile (User | null)
    inflight,      \* dashboard: number of unresolved fetchUserData calls per username
    fetchCalls,    \* dashboard: usernames passed to fetchUserData, in call order
    setCalls       \* dashboard: values passed to setUserData, in call order

chatVars == <<messages, userInput, timers, now>>
therapyVars == <<flippedCards, sidebarOpen>>
dashVars == <<mounted, username, userData, inflight, fetchCalls, setCalls>>
vars == <<messages, userInput, timers, now, flippedCards, sidebarOpen,
          mounted, username, userData, inflight, fetchCalls, setCalls>>

----------------------------------------------------------------------------
(* Bounds of the model *)

MaxSends == 2        \* accepted submissions per behaviour
MaxTicks == 3        \* clock ticks after the mount instant
TickMs == 500        \* granularity of the modelled clock, in ms
MaxFetches == 3      \* fetchUserData calls per behaviour

(* Program constants *)

ReplyDelayMs == 1000     \* setTimeout delay
NumExercises == 4        \* length of the exercises catalog

MinuteMs == 60 * 1000
HourMs == 60 * MinuteMs
DayMs == 24 * HourMs

----------------------------------------------------------------------------
(* Chat page: FitnessAssistant *)

\* A string is a sequence of one-character strings.
Inputs == { <<>>, <<" ">>, <<" ", " ">>, <<"a">>, <<"b">>, <<" ", "a", " ">> }

\* Keys delivered to the input's onKeyDown.
Keys == { "Enter", "a" }

\* Instants at which the page may be mounted: midnight, just before a minute
\* boundary, just before the next midnight.
StartTimes == { 0, MinuteMs - TickMs, DayMs - TickMs }

IsWhitespace(c) == c = " "

RECURSIVE TrimStart(_)
TrimStart(s) ==
    IF s = <<>> THEN <<>>
    ELSE IF IsWhitespace(Head(s)) THEN TrimStart(Tail(s)) ELSE s

RECURSIVE TrimEnd(_)
TrimEnd(s) ==
    IF s = <<>> THEN <<>>
    ELSE IF IsWhitespace(s[Len(s)]) THEN TrimEnd(SubSeq(s, 1, Len(s) - 1)) ELSE s

\* String.prototype.trim
Trim(s) == TrimEnd(TrimStart(s))

\* toLocaleTimeString([], {hour: "2-digit", minute: "2-digit"}): the hour and
\* minute of the day, seconds dropped, wrapping at midnight.
FormatTime(t) == << (t \div HourMs) % 24, (t \div MinuteMs) % 60 >>

\* The template literal of the bot reply: a fixed prefix, the captured text,
\* a fixed suffix (the source's typographic apostrophe is written ' here).
ReplyTemplate(s) == <<"Here's an exercise tailored for \"">> \o s \o <<"\"!">>

UserMessage(s, ts) == [type |-> "user", content |-> s, timestamp |-> ts]

BotMessage(s, ts) == [type |-> "bot", content |-> ReplyTemplate(s), timestamp |-> ts]

\* The closure passed to setTimeout: it captures userInput and timestamp of
\* the render in which handleSend ran.
TimerClosure(s, ts, due) == [userInput |-> s, timestamp |-> ts, due |-> due]

NumSends == Cardinality({ i \in 1..Len(messages) : messages[i].type = "user" })

\* onChange={(e) => setUserInput(e.target.value)}
OnChange(s) ==
    /\ userInput' = s
    /\ UNCHANGED <<messages, timers, now>>

\* Variant of SendBody: the user message keeps the trimmed text.
SendBodyTrimmed ==
    LET timestamp == FormatTime(now) IN
    /\ messages' = Append(messages, UserMessage(Trim(userInput), timestamp))
    /\ timers' = Append(timers, TimerClosure(userInput, timestamp, now + ReplyDelayMs))
    /\ userInput' = <<>>
    /\ UNCHANGED now

\* Variant of SendBody: the new message is put in front, [msg, ...prev].
SendBodyPrepend ==
    LET timestamp == FormatTime(now) IN
    /\ messages' = <<UserMessage(userInput, timestamp)>> \o messages
    /\ timers' = Append(timers, TimerClosure(userInput, timestamp, now + ReplyDelayMs))
    /\ userInput' = <<>>
    /\ UNCHANGED now

\* Variant of SendBody: a new submission cancels the replies still pending
\* (clearTimeout before setTimeout).
SendBodyDebounce ==
    LET timestamp == FormatTime(now) IN
    /\ messages' = Append(messages, UserMessage(userInput, timestamp))
    /\ timers' = <<TimerClosure(userInput, timestamp, now + ReplyDelayMs)>>
    /\ userInput' = <<>>
    /\ UNCHANGED now

\* The body of handleSend once the guard has passed.
SendBody ==
    LET timestamp == FormatTime(now) IN
    /\ messages' = Append(messages, UserMessage(userInput, timestamp))
    /\ timers' = Append(timers, TimerClosure(userInput, timestamp, now + ReplyDelayMs))
    /\ userInput' = <<>>
    /\ UNCHANGED now

\* Variant of HandleSend: the guard tests the raw input, if (!userInput) return.
HandleSendNoTrim ==
    IF userInput = <<>>
    THEN UNCHANGED chatVars
    ELSE NumSends < MaxSends /\ SendBody

\* const handleSend = () => { if (!userInput.trim()) return; ... }
HandleSend ==
    IF Trim(userInput) = <<>>
    THEN UNCHANGED chatVars
    ELSE NumSends < MaxSends /\ SendBody

\* Variant of HandleKeyDown without the key test: every key sends.
HandleKeyDownAnyKey(key) == HandleSend

\* const handleKeyDown = (e) => { if (e.key === "Enter") handleSend(); }
HandleKeyDown(key) ==
    IF key = "Enter" THEN HandleSend ELSE UNCHANGED chatVars

\* Variant of TimerFire: the reply is put in front, [reply, ...prev].
TimerFirePrepend ==
    /\ timers # <<>>
    /\ now >= Head(timers).due
    /\ messages' = <<BotMessage(Head(timers).userInput, Head(timers).timestamp)>> \o messages
    /\ timers' = Tail(timers)
    /\ UNCHANGED <<userInput, now>>

\* Variant of TimerFire: the reply is stamped with the time at which it fires.
TimerFireFreshStamp ==
    /\ timers # <<>>
    /\ now >= Head(timers).due
    /\ messages' = Append(messages, BotMessage(Head(timers).userInput, FormatTime(now)))
    /\ timers' = Tail(timers)
    /\ UNCHANGED <<userInput, now>>

\* The timer callback: timers of equal delay run in scheduling order, and
\* never before their delay has elapsed.
TimerFire ==
    /\ timers # <<>>
    /\ now >= Head(timers).due
    /\ messages' = Append(messages, BotMessage(Head(timers).userInput, Head(timers).timestamp))
    /\ timers' = Tail(timers)
    /\ UNCHANGED <<userInput, now>>

\* Passage of wall-clock time.
Tick ==
    /\ \E s \in StartTimes : s <= now /\ now < s + MaxTicks * TickMs
    /\ now' = now + TickMs
    /\ UNCHANGED <<messages, userInput, timers>>

NextChat ==
    \/ \E s \in Inputs : OnChange(s) /\ UNCHANGED <<therapyVars, dashVars>>
    \/ HandleSend /\ UNCHANGED <<therapyVars, dashVars>>
    \/ \E key \in Keys : HandleKeyDown(key) /\ UNCHANGED <<therapyVars, dashVars>>
    \/ TimerFire /\ UNCHANGED <<therapyVars, dashVars>>
    \/ Tick /\ UNCHANGED <<therapyVars, dashVars>>

----------------------------------------------------------------------------
(* Exercise cards page: StartTherapy *)

\* Card indices produced by exercises.map((exercise, idx) => ...).
Cards == 0 .. (NumExercises - 1)

\* flippedCards[idx] read as a condition: a missing key reads undefined, falsy.
Flipped(fc, idx) == idx \in DOMAIN fc /\ fc[idx]

\* Variant of FlipUpdater without the spread: (prev) => ({ [idx]: !prev[idx] })
FlipUpdaterNoSpread(prev, idx) == [k \in {idx} |-> ~Flipped(prev, idx)]

\* The updater of handleFlip: (prev) => ({ ...prev, [idx]: !prev[idx] })
FlipUpdater(prev, idx) ==
    [k \in (DOMAIN prev) \cup {idx} |-> IF k = idx THEN ~Flipped(prev, idx) ELSE prev[k]]

\* const handleFlip = (idx) => { setFlippedCards(updater) }
HandleFlip(idx) ==
    /\ flippedCards' = FlipUpdater(flippedCards, idx)
    /\ UNCHANGED sidebarOpen

\* const toggleSidebar = () => { setSidebarOpen(!sidebarOpen) }
ToggleSidebar ==
    /\ sidebarOpen' = ~sidebarOpen
    /\ UNCHANGED flippedCards

NextTherapy ==
    \/ \E idx \in Cards : HandleFlip(idx) /\ UNCHANGED <<chatVars, dashVars>>
    \/ ToggleSidebar /\ UNCHANGED <<chatVars, dashVars>>

----------------------------------------------------------------------------
(* Dashboard page *)

\* JavaScript values that occur in the profile and the user context.  Numbers
\* are kept in tenths so that the product with 0.9 is exact.
Undefined == [kind |-> "undefined", tenths |-> 0, s |-> ""]
Null == [kind |-> "null", tenths |-> 0, s |-> ""]
Num(x) == [kind |-> "number", tenths |-> 10 * x, s |-> ""]
Str(x) == [kind |-> "string", tenths |-> 0, s |-> x]

\* ToBoolean
Truthy(v) ==
    CASE v.kind = "number" -> v.tenths # 0
      [] v.kind = "string" -> v.s # ""
      [] OTHER -> FALSE

\* a ?? b
Nullish(a, b) == IF a.kind \in {"undefined", "null"} THEN b ELSE a

\* x * 0.9 on a number
Times09(v) == [kind |-> "number", tenths |-> (v.tenths * 9) \div 10, s |-> ""]

NA == Str("N/A")

Fields == {"name", "email", "sex", "pain_category", "bmi", "age", "height"}

\* A complete profile of user u with the given age field.
FullProfile(u, age) ==
    [name |-> Str(u), email |-> Str("mail"), sex |-> Str("F"),
     pain_category |-> Str("low"), bmi |-> Num(22), age |-> age, height |-> Num(170)]

\* A profile whose optional fields are all absent.
SparseProfile == [f \in Fields |-> Undefined]

\* User | null, as a sequence of at most one profile.
None == <<>>
Some(p) == <<p>>

UserNames == {"u1", "u2"}

\* username: string | undefined
ContextValues == {Undefined, Str("")} \cup {Str(u) : u \in UserNames}

\* What fetchUserData(u) may resolve to.
Responses(u) ==
    {None, Some(SparseProfile)}
        \cup {Some(FullProfile(u, a)) : a \in {Num(80), Num(0), Null}}

\* userData?.field
Chain(ud, f) == IF ud = None THEN Undefined ELSE ud[1][f]

NameDisplay(ud) == Nullish(Chain(ud, "name"), NA)
EmailDisplay(ud) == Nullish(Chain(ud, "email"), NA)
SexDisplay(ud) == Nullish(Chain(ud, "sex"), NA)
PainDisplay(ud) == Nullish(Chain(ud, "pain_category"), NA)
BmiDisplay(ud) == Nullish(Chain(ud, "bmi"), NA)
HeightDisplay(ud) == Nullish(Chain(ud, "height"), NA)

\* {userData?.age ? userData.age * 0.9 : "N/A"}
WeightDisplay(ud) ==
    IF Truthy(Chain(ud, "age")) THEN Times09(ud[1].age) ELSE NA

\* The Patient Info card, field by field.
PatientInfo(ud) ==
    [name |-> NameDisplay(ud), email |-> EmailDisplay(ud), sex |-> SexDisplay(ud),
     pain_category |-> PainDisplay(ud), bmi |-> BmiDisplay(ud),
     weight |-> WeightDisplay(ud), height |-> HeightDisplay(ud)]

\* fetchData up to its await: if (username) { ... await fetchUserData(username)
FetchData(u) ==
    IF Truthy(u)
    THEN /\ Len(fetchCalls) < MaxFetches
         /\ fetchCalls' = Append(fetchCalls, u.s)
         /\ inflight' = [inflight EXCEPT ![u.s] = @ + 1]
    ELSE UNCHANGED <<fetchCalls, inflight>>

\* Variant of Effect without the dependency array: it runs after every render.
EffectEveryRender(old, new, first) == FetchData(new)

\* useEffect(() => { ...; fetchData(); }, [username]): the effect runs after
\* the first render and after each render in which username differs.
Effect(old, new, first) ==
    IF first \/ old # new
    THEN FetchData(new)
    ELSE UNCHANGED <<fetchCalls, inflight>>

\* First render and commit of the component.
Mount ==
    /\ ~mounted
    /\ mounted' = TRUE
    /\ Effect(username, username, TRUE)
    /\ UNCHANGED <<username, userData, setCalls>>

\* The user context supplies a username (possibly the same one) and the
\* component renders again.
ContextUpdate(u) ==
    /\ mounted
    /\ username' = u
    /\ Effect(username, u, FALSE)
    /\ UNCHANGED <<mounted, userData, setCalls>>

\* Variant of FetchResolves: only a found profile is stored, if (data) setUserData(data).
FetchResolvesKeepOnNull(u, data) ==
    /\ inflight[u] > 0
    /\ inflight' = [inflight EXCEPT ![u] = @ - 1]
    /\ IF data = None
       THEN UNCHANGED <<userData, setCalls>>
       ELSE userData' = data /\ setCalls' = Append(setCalls, data)
    /\ UNCHANGED <<mounted, username, fetchCalls>>

\* fetchData after its await: setUserData(data)
FetchResolves(u, data) ==
    /\ inflight[u] > 0
    /\ inflight' = [inflight EXCEPT ![u] = @ - 1]
    /\ userData' = data
    /\ setCalls' = Append(setCalls, data)
    /\ UNCHANGED <<mounted, username, fetchCalls>>

\* The awaited promise rejects: fetchData has no try/catch, so it ends there
\* and setUserData is not reached.
FetchRejects(u) ==
    /\ inflight[u] > 0
    /\ inflight' = [inflight EXCEPT ![u] = @ - 1]
    /\ UNCHANGED <<mounted, username, userData, fetchCalls, setCalls>>

NextDash ==
    \/ Mount /\ UNCHANGED <<chatVars, therapyVars>>
    \/ \E u \in ContextValues : ContextUpdate(u) /\ UNCHANGED <<chatVars, therapyVars>>
    \/ \E u \in UserNames : \E data \in Responses(u) :
           FetchResolves(u, data) /\ UNCHANGED <<chatVars, therapyVars>>
    \/ \E u \in UserNames : FetchRejects(u) /\ UNCHANGED <<chatVars, therapyVars>>

----------------------------------------------------------------------------
(* Properties of the chat page *)

IsUser(m) == m.type = "user"
IsBot(m) == m.type = "bot"

\* The user messages and the bot messages of the transcript, in order.
Users == SelectSeq(messages, IsUser)
Bots == SelectSeq(messages, IsBot)

Last(s) == s[Len(s)]

\* new is old with exactly one element appended.
AppendsOne(old, new) ==
    Len(new) = Len(old) + 1 /\ SubSeq(new, 1, Len(old)) = old

\* A handleSend step (Send button or Enter key) that passes the guard.
AcceptedSend == Trim(userInput) # <<>> /\ HandleSend

TimeLeq(a, b) == a[1] < b[1] \/ (a[1] = b[1] /\ a[2] <= b[2])

\* C1: a handleSend with a non-blank buffer s appends exactly one user
\* message with content s in that very step and schedules one reply; the
\* timer's firing appends exactly one bot message whose content is the reply
\* template applied to that s; nothing else ever adds a message, so the k-th
\* reply answers the k-th submission and every submission has either its
\* reply in the transcript or its timer pending, never both and never two.
C1_SubmitThenOneReply ==
    /\ [](/\ Len(Bots) + Len(timers) = Len(Users)
          /\ \A k \in 1..Len(Bots) : Bots[k].content = ReplyTemplate(Users[k].content)
          /\ \A k \in 1..Len(timers) : timers[k].userInput = Users[Len(Bots) + k].content)
    /\ [][/\ AcceptedSend =>
                /\ AppendsOne(messages, messages')
                /\ Last(messages').type = "user"
                /\ Last(messages').content = userInput
                /\ AppendsOne(timers, timers')
                /\ Last(timers').userInput = userInput
          /\ TimerFire =>
                /\ AppendsOne(messages, messages')
                /\ Last(messages').type = "bot"
                /\ Last(messages').content = ReplyTemplate(Head(timers).userInput)
                /\ timers' = Tail(timers)
          /\ messages' # messages => AcceptedSend \/ TimerFire]_vars

\* C1 witness: the text " a " (blank only at its ends) was submitted and answered.
C1_Witness ==
    /\ Len(messages) >= 2
    /\ messages[1].type = "user" /\ messages[1].content = <<" ", "a", " ">>
    /\ messages[2].type = "bot"
    /\ messages[2].content = ReplyTemplate(<<" ", "a", " ">>)

\* C2: handleSend (by the Send button or by Enter) with an empty or
\* whitespace-only buffer changes nothing: transcript, pending timers and
\* buffer stay as they are.
C2_BlankSendIsNoOp ==
    [][(Trim(userInput) = <<>> /\ (HandleSend \/ HandleKeyDown("Enter")))
          => UNCHANGED chatVars]_vars

\* C2 witness: a whitespace-only buffer while a message is in the transcript
\* and a reply is pending.
C2_Witness ==
    /\ userInput = <<" ", " ">>
    /\ messages # <<>>
    /\ timers # <<>>

\* C3: in every step the old transcript is a prefix of the new one.
C3_AppendOnly ==
    [][/\ Len(messages') >= Len(messages)
       /\ SubSeq(messages', 1, Len(messages)) = messages]_vars

\* C3 witness: two submissions were made before either reply fired, and
\* both replies have since been appended.
C3_Witness ==
    /\ Len(messages) = 4
    /\ messages[1].type = "user" /\ messages[2].type = "user"
    /\ messages[3].type = "bot" /\ messages[4].type = "bot"

\* C7 as stated: read in order, the timestamps of the transcript never decrease.
C7_Chronological ==
    \A i \in 1..Len(messages) : \A j \in 1..Len(messages) :
        i < j => TimeLeq(messages[i].timestamp, messages[j].timestamp)

\* C7 amended: while the clock has not passed the midnight after the mount,
\* the timestamps of the user messages never decrease in transcript order and
\* no message carries a timestamp later than the current time.
C7_UserMessagesChronologicalWithinDay ==
    now < DayMs =>
        /\ \A i \in 1..Len(Users) : \A j \in 1..Len(Users) :
               i < j => TimeLeq(Users[i].timestamp, Users[j].timestamp)
        /\ \A i \in 1..Len(messages) : TimeLeq(messages[i].timestamp, FormatTime(now))

\* C7 witness: within one day, a reply stamped 00:00 stands after a user
\* message stamped 00:01.
C7_Witness ==
    /\ now < DayMs
    /\ Len(messages) >= 3
    /\ messages[2].type = "user" /\ messages[2].timestamp = <<0, 1>>
    /\ messages[3].type = "bot" /\ messages[3].timestamp = <<0, 0>>

\* C8: the k-th bot message carries the timestamp of the k-th user message,
\* the one captured when its submission was made.
C8_ReplyCarriesSubmissionTime ==
    /\ Len(Bots) <= Len(Users)
    /\ \A k \in 1..Len(Bots) : Bots[k].timestamp = Users[k].timestamp

\* C8 witness: a reply stamped 00:00 is in the transcript although it was
\* appended when the clock already showed 00:01.
C8_Witness ==
    /\ FormatTime(now) = <<0, 1>>
    /\ \E i \in 1..Len(messages) :
           messages[i].type = "bot" /\ messages[i].timestamp = <<0, 0>>

\* C11: an accepted submission leaves the input buffer empty, so that the
\* guard of the next handleSend rejects it unless the buffer is edited first;
\* a step is a step of the Enter key exactly when it is a step of the Send
\* button (same transcript, buffer and pending replies from the same state);
\* a key other than Enter changes neither transcript nor pending replies.
C11_EnterEqualsSendAndClears ==
    [][/\ AcceptedSend => (userInput' = <<>> /\ Trim(userInput') = <<>>)
       /\ HandleKeyDown("Enter") <=> HandleSend
       /\ \A key \in Keys \ {"Enter"} :
              HandleKeyDown(key) => UNCHANGED <<messages, timers>>]_vars

\* C11 witness: the text "b" has just been submitted: it is the last message
\* of the transcript, its reply is pending and the buffer is empty.
C11_Witness ==
    /\ messages # <<>>
    /\ Last(messages).type = "user" /\ Last(messages).content = <<"b">>
    /\ timers # <<>> /\ Last(timers).userInput = <<"b">>
    /\ userInput = <<>>

\* C12: a submission adds its timer behind the timers already pending and
\* removes none of them; only a submission or a firing changes the pending
\* timers, an edit of the buffer does not; and once no timer is pending there
\* are as many bot messages as user messages, the k-th bot message quoting
\* the text of the k-th user message, equal texts included.
C12_IndependentReplies ==
    /\ [](timers = <<>> =>
            /\ Len(Bots) = Len(Users)
            /\ \A k \in 1..Len(Users) : Bots[k].content = ReplyTemplate(Users[k].content))
    /\ [][/\ AcceptedSend =>
                /\ Len(timers') = Len(timers) + 1
                /\ SubSeq(timers', 1, Len(timers)) = timers
          /\ timers' # timers => AcceptedSend \/ TimerFire
          /\ Len(timers') < Len(timers) => Len(Bots') = Len(Bots) + 1]_vars

\* C12 witness: the text "a" was submitted twice before either reply fired,
\* both replies have been appended and quote "a", and the buffer now holds "b".
C12_Witness ==
    /\ Len(messages) = 4
    /\ messages[1] = UserMessage(<<"a">>, messages[1].timestamp)
    /\ messages[2] = UserMessage(<<"a">>, messages[2].timestamp)
    /\ messages[3] = BotMessage(<<"a">>, messages[3].timestamp)
    /\ messages[4] = BotMessage(<<"a">>, messages[4].timestamp)
    /\ timers = <<>>
    /\ userInput = <<"b">>

\* The number of messages of the given type among the first n of the transcript.
CountIn(type, n) == Cardinality({ i \in 1..n : messages[i].type = type })

\* The position in the transcript of the k-th message of the given type.
PositionOf(type, k) ==
    CHOOSE i \in 1..Len(messages) : messages[i].type = type /\ CountIn(type, i) = k

\* C14: there are as many user messages as bot messages and pending timers
\* together; the k-th bot message stands after the k-th user message, the
\* one it answers; and no prefix of the transcript holds more bot messages
\* than user messages, so the transcript never starts with a bot message.
C14_RepliesFollowSubmissions ==
    /\ Len(Users) = Len(Bots) + Len(timers)
    /\ \A k \in 1..Len(Bots) :
           /\ k <= Len(Users)
           /\ PositionOf("user", k) < PositionOf("bot", k)
    /\ \A n \in 0..Len(messages) : CountIn("bot", n) <= CountIn("user", n)
    /\ messages # <<>> => messages[1].type = "user"

\* C14 witness: the first submission has been answered, the second has been
\* made and its reply is still pending.
C14_Witness ==
    /\ Len(messages) = 3
    /\ messages[1].type = "user" /\ messages[2].type = "bot" /\ messages[3].type = "user"
    /\ Len(timers) = 1

----------------------------------------------------------------------------
(* Properties of the exercise cards page *)

\* C4: for every card i, flipping i twice gives every card, i included, its
\* original flipped state, and flipping i once leaves every other card as it was.
C4_FlipTwiceAndIndependent ==
    \A i \in Cards : \A j \in Cards :
        /\ Flipped(FlipUpdater(FlipUpdater(flippedCards, i), i), j) = Flipped(flippedCards, j)
        /\ j # i => Flipped(FlipUpdater(flippedCards, i), j) = Flipped(flippedCards, j)
        /\ Flipped(FlipUpdater(flippedCards, i), i) # Flipped(flippedCards, i)

\* C4 witness: card 0 has been flipped twice, card 1 once, card 2 never.
C4_Witness ==
    /\ DOMAIN flippedCards = {0, 1}
    /\ flippedCards[0] = FALSE
    /\ flippedCards[1] = TRUE

----------------------------------------------------------------------------
(* Properties of the dashboard *)

DisplayFields == {"name", "email", "sex", "pain_category", "bmi", "weight", "height"}

AllPlaceholders(ud) == \A f \in DisplayFields : PatientInfo(ud)[f] = NA

\* C5: a fetch that resolves to null makes the stored profile null and every
\* field of the Patient Info card "N/A", whatever was stored before.
C5_NullFetchShowsPlaceholders ==
    [][(\E u \in UserNames : FetchResolves(u, None))
          => (userData' = None /\ AllPlaceholders(userData'))]_vars

\* C5 witness: null was stored right after a complete profile.
C5_Witness ==
    /\ Len(setCalls) >= 2
    /\ setCalls[Len(setCalls) - 1] = Some(FullProfile("u1", Num(80)))
    /\ setCalls[Len(setCalls)] = None
    /\ userData = None

\* C6 as stated: whenever the stored profile has a numeric age, the weight
\* display is age * 0.9, and the weight display is "N/A" only when the
\* profile or its age is absent.
C6_WeightIsAgeTimes09 ==
    /\ (userData # None /\ userData[1].age.kind = "number") =>
           WeightDisplay(userData) =
               [kind |-> "number", tenths |-> (userData[1].age.tenths * 9) \div 10, s |-> ""]
    /\ WeightDisplay(userData) = NA =>
           (userData = None \/ userData[1].age.kind \in {"undefined", "null"})

\* C9 as stated: fetchUserData is called at most once for each username value.
C9_OncePerDistinctUsername ==
    \A u \in UserNames :
        Cardinality({ i \in 1..Len(fetchCalls) : fetchCalls[i] = u }) <= 1

\* C9 amended: a step calls fetchUserData exactly when it is the mount or a
\* change of the username, and the username it ends with is a non-empty
\* string; the call is for that username; such a step does not write the
\* stored profile.
C9_OneFetchPerUsernameChange ==
    [][/\ IF ((~mounted /\ mounted') \/ username' # username) /\ Truthy(username')
          THEN fetchCalls' = Append(fetchCalls, username'.s)
          ELSE fetchCalls' = fetchCalls
       /\ (mounted' # mounted \/ username' # username) => userData' = userData]_vars

\* C9 witness: u1 was fetched at mount and again when the context returned to
\* it; the re-renders with an unchanged username in between added no call.
C9_Witness ==
    /\ fetchCalls = <<"u1", "u1">>
    /\ username = Str("u1")

\* C10 as stated: after a fetch that rejects or resolves to null, every field
\* of the Patient Info card shows "N/A".
C10_FailedFetchShowsPlaceholders ==
    [][(\E u \in UserNames : FetchRejects(u) \/ FetchResolves(u, None))
          => AllPlaceholders(userData')]_vars

\* C13 as stated: once every fetchUserData call has resolved, the stored
\* profile is a result for the current username, not one for an earlier
\* username.
C13_LatestUsernameWins ==
    (/\ Truthy(username)
     /\ fetchCalls # <<>>
     /\ \A u \in UserNames : inflight[u] = 0
     /\ Len(setCalls) = Len(fetchCalls))
        => userData \in Responses(username.s)

----------------------------------------------------------------------------
(* Specifications, one per page *)

\* The state of a page after construction; the other pages are not mounted
\* and their variables keep the useState initial values.
InitChat ==
    /\ messages = <<>>
    /\ userInput = <<>>
    /\ timers = <<>>
    /\ now \in StartTimes
    /\ flippedCards = [k \in {} |-> FALSE]
    /\ sidebarOpen = FALSE
    /\ mounted = FALSE
    /\ username = Undefined
    /\ userData = None
    /\ inflight = [u \in UserNames |-> 0]
    /\ fetchCalls = <<>>
    /\ setCalls = <<>>

InitTherapy ==
    /\ messages = <<>>
    /\ userInput = <<>>
    /\ timers = <<>>
    /\ now = 0
    /\ flippedCards = [k \in {} |-> FALSE]
    /\ sidebarOpen = FALSE
    /\ mounted = FALSE
    /\ username = Undefined
    /\ userData = None
    /\ inflight = [u \in UserNames |-> 0]
    /\ fetchCalls = <<>>
    /\ setCalls = <<>>

InitDash ==
    /\ messages = <<>>
    /\ userInput = <<>>
    /\ timers = <<>>
    /\ now = 0
    /\ flippedCards = [k \in {} |-> FALSE]
    /\ sidebarOpen = FALSE
    /\ mounted = FALSE
    /\ username \in ContextValues
    /\ userData = None
    /\ inflight = [u \in UserNames |-> 0]
    /\ fetchCalls = <<>>
    /\ setCalls = <<>>

SpecChat == InitChat /\ [][NextChat]_vars

SpecTherapy == InitTherapy /\ [][NextTherapy]_vars

SpecDash == InitDash /\ [][NextDash]_vars

====
